---- MODULE Spec2Model ----
(***************************************************************************)
(* Model of core/dump_permissions/command.py: the dump-permissions         *)
(* sub-command.  cmd_handler runs three strategies in sequence             *)
(* (check_root_account, check_via_iam, bruteforce_permissions) and prints  *)
(* what they found.  Every remote call is an input: it either returns or   *)
(* raises, and an exception either carries the attribute error_message     *)
(* (boto's server errors) or does not (any other Exception).               *)
(***************************************************************************)
EXTENDS Integers, Sequences, FiniteSets, TLC

\* Largest number of inline policy names get_all_user_policies may list.
MaxPolicies == 3

\* args.token: empty (long-lived key) or not (temporary credential).
Tokens == {"", "session-token"}

\* What a call can do: return, raise an exception that has error_message,
\* or raise an exception that has not.
Ok == "ok"
ExcKinds == {"BotoServerError", "Exception"}
Outcomes == {Ok} \cup ExcKinds

HasErrorMessage(e) == e = "BotoServerError"

None == <<>>
Some(v) == <<v>>

\* ---- policy documents on the wire ------------------------------------
\* A wire document is a sequence of symbols: percent escapes and literal
\* chunks of text.
PercentTable == [x \in {"%7B", "%7D"} |-> IF x = "%7B" THEN "{" ELSE "}"]

unquote(s) == [i \in DOMAIN s |-> IF s[i] \in DOMAIN PercentTable
                                    THEN PercentTable[s[i]] ELSE s[i]]

Statement(action) == [Action |-> <<action>>, Effect |-> "Allow", Resource |-> "*"]

JsonBodies == [b \in {"s3-get", "ec2-describe"} |->
                 [Version |-> "2012-10-17",
                  Statement |-> <<Statement(IF b = "s3-get" THEN "s3:Get*"
                                                            ELSE "ec2:Describe*")>>]]

\* json.loads: Some(document) for a well-formed text, None for ValueError.
json_loads(text) ==
    IF /\ Len(text) = 3
       /\ text[1] = "{"
       /\ text[3] = "}"
       /\ text[2] \in DOMAIN JsonBodies
    THEN Some(JsonBodies[text[2]])
    ELSE None

\* Documents the identity service may hand back for a policy name.
WireDocs == { <<"%7B", "s3-get", "%7D">>,
              <<"%7B", "ec2-describe", "%7D">>,
              <<"%7B", "s3-get">> }

\* ---- logging ----------------------------------------------------------
Log(level, msg) == [level |-> level, msg |-> msg, obj |-> None]
LogObj(level, obj) == [level |-> level, msg |-> "pformat", obj |-> Some(obj)]

RootMsg == "The provided credentials are for an AWS root account!"
NoPermsMsg == "No permissions could be dumped."
NoActionsMsg == "No actions could be bruteforced."

\* print_permissions: the records it logs.
print_permissions(permissions) ==
    IF permissions = <<>>
    THEN <<Log("warning", NoPermsMsg)>>
    ELSE [i \in DOMAIN permissions |-> LogObj("info", permissions[i])]

\* ---- bruteforce -------------------------------------------------------
TESTS == <<"DescribeImages", "DescribeInstances", "DescribeInstanceStatus">>

bruteforced_perms(action_list) ==
    [Version |-> "2012-10-17",
     Statement |-> <<[Action |-> action_list, Effect |-> "Allow", Resource |-> "*"]>>]

\* bruteforce_permissions, given what the bruteforcers returned.
bruteforce_permissions(action_list) ==
    IF action_list # <<>> THEN <<bruteforced_perms(action_list)>> ELSE <<>>

VARIABLES
    token,          \* args.token
    pc,             \* position of the run
    invoked,        \* strategies cmd_handler has called, in order
    calls,          \* remote operations performed, in order
    results,        \* what each of them did, in the same order
    log,            \* log records emitted, in order
    root_ret,       \* None, or Some(return value of check_root_account)
    iam_ret,        \* None, or Some([success, permissions]) of check_via_iam
    bf_ret,         \* None, or Some(return value of bruteforce_permissions)
    e,              \* check_via_iam's local e: "unbound" or an exception kind
    policy_names,   \* names listed by get_all_user_policies
    fetched,        \* number of policy names already processed
    permissions,    \* check_via_iam's accumulated documents
    probed,         \* number of TESTS entries already processed
    actions,        \* bruteforce_ec2_permissions' actions
    exc             \* "none", or the exception that left cmd_handler

vars == <<token, pc, invoked, calls, results, log, root_ret, iam_ret, bf_ret, e,
          policy_names, fetched, permissions, probed, actions, exc>>

Init ==
    /\ token \in Tokens
    /\ pc = "cmd_handler"
    /\ invoked = <<>>
    /\ calls = <<>>
    /\ results = <<>>
    /\ log = <<>>
    /\ root_ret = None
    /\ iam_ret = None
    /\ bf_ret = None
    /\ e = "unbound"
    /\ policy_names = <<>>
    /\ fetched = 0
    /\ permissions = <<>>
    /\ probed = 0
    /\ actions = <<>>
    /\ exc = "none"

\* An exception leaves cmd_handler.
Raise(name) ==
    /\ pc' = "raised"
    /\ exc' = name

\* `except Exception, e: logging.debug('...' % e.error_message); return`:
\* reading error_message of an exception that has none raises AttributeError.
RootHandler(kind, msg) ==
    IF HasErrorMessage(kind)
    THEN /\ log' = log \o <<Log("debug", msg), Log("debug", "Not an AWS root account")>>
         /\ root_ret' = Some(FALSE)
         /\ pc' = "after_root"
         /\ exc' = exc
    ELSE /\ Raise("AttributeError")
         /\ UNCHANGED <<log, root_ret>>

\* Variant of token_present: the token is never looked at.
token_present_never(t) == FALSE

\* check_root_account, line 162: `if token:`.
token_present(t) == t # ""

\* ---- cmd_handler, line 32: call check_root_account; lines 162-164 -----
RootTokenCheck ==
    /\ pc = "cmd_handler"
    /\ invoked' = Append(invoked, "check_root_account")
    /\ log' = Append(log, Log("debug", "Starting dump-permissions"))
    /\ IF token_present(token)
       THEN /\ root_ret' = Some(FALSE)
            /\ pc' = "after_root"
       ELSE /\ root_ret' = root_ret
            /\ pc' = "root_connect"
    /\ UNCHANGED <<token, calls, results, iam_ret, bf_ret, e, policy_names, fetched,
                   permissions, probed, actions, exc>>

\* ---- check_root_account, lines 166-174 --------------------------------
RootConnect ==
    /\ pc = "root_connect"
    /\ calls' = Append(calls, "IAMConnection")
    /\ \E o \in Outcomes :
         /\ results' = Append(results, o)
         /\ IF o = Ok
            THEN /\ pc' = "root_summary"
                 /\ UNCHANGED <<log, root_ret, exc>>
            ELSE RootHandler(o, "Failed to connect to IAM")
    /\ UNCHANGED <<token, invoked, iam_ret, bf_ret, e, policy_names, fetched,
                   permissions, probed, actions>>

\* ---- check_root_account, lines 176-182 --------------------------------
RootSummary ==
    /\ pc = "root_summary"
    /\ calls' = Append(calls, "get_account_summary")
    /\ \E o \in Outcomes :
         /\ results' = Append(results, o)
         /\ IF o = Ok
            THEN /\ pc' = "root_enumerate"
                 /\ UNCHANGED <<log, root_ret, exc>>
            ELSE RootHandler(o, "Failed to retrieve IAM account summary")
    /\ UNCHANGED <<token, invoked, iam_ret, bf_ret, e, policy_names, fetched,
                   permissions, probed, actions>>

\* Users get_user_from_key may return: None (no owner) or a user name.
Users == {None, Some("alice")}

\* How `results` records a user lookup that returned.
Lookup(user) == IF user = None THEN "no-user" ELSE "user"

\* check_root_account, lines 191-199: the verdict once enumeration returned.
root_verdict(user) == user = None

\* ---- check_root_account, lines 184-199 --------------------------------
RootEnumerate ==
    /\ pc = "root_enumerate"
    /\ calls' = Append(calls, "get_user_from_key")
    /\ \/ \E user \in Users :
            /\ results' = Append(results, Lookup(user))
            /\ IF root_verdict(user)
               THEN log' = Append(log, Log("info", RootMsg))
               ELSE log' = Append(log, Log("debug", "These credentials belong to a user"))
            /\ root_ret' = Some(root_verdict(user))
            /\ pc' = "after_root"
            /\ exc' = exc
       \/ \E o \in ExcKinds :
            /\ results' = Append(results, o)
            /\ RootHandler(o, "Failed to enumerate users and access keys")
    /\ UNCHANGED <<token, invoked, iam_ret, bf_ret, e, policy_names, fetched,
                   permissions, probed, actions>>

\* Variant of root_short_circuit: the run goes on after a root verdict.
root_short_circuit_never(ret) == FALSE

\* cmd_handler, lines 32-33: TRUE when the run ends after check_root_account.
root_short_circuit(ret) == ret = TRUE

\* ---- cmd_handler, lines 32-37 -----------------------------------------
HandlerAfterRoot ==
    /\ pc = "after_root"
    /\ IF root_short_circuit(root_ret[1])
       THEN /\ pc' = "done"
            /\ invoked' = invoked
       ELSE /\ pc' = "iam_connect"
            /\ invoked' = Append(invoked, "check_via_iam")
    /\ UNCHANGED <<token, calls, results, log, root_ret, iam_ret, bf_ret, e, policy_names,
                   fetched, permissions, probed, actions, exc>>

\* check_via_iam's `return False, None`.
IamFailure == [success |-> FALSE, permissions |-> None]

\* The handlers of check_via_iam, lines 117-120, 129-132 and 141-144: they
\* format e.error_message, where e is the function's local variable.
IamHandler(bound, msgs) ==
    IF bound = "unbound"
    THEN /\ Raise("UnboundLocalError")
         /\ UNCHANGED <<log, iam_ret>>
    ELSE IF HasErrorMessage(bound)
    THEN /\ log' = log \o msgs
         /\ iam_ret' = Some(IamFailure)
         /\ pc' = "after_iam"
         /\ exc' = exc
    ELSE /\ Raise("AttributeError")
         /\ UNCHANGED <<log, iam_ret>>

\* ---- check_via_iam, lines 113-120 -------------------------------------
IamConnect ==
    /\ pc = "iam_connect"
    /\ calls' = Append(calls, "IAMConnection")
    /\ \E o \in Outcomes :
         /\ results' = Append(results, o)
         /\ IF o = Ok
            THEN /\ pc' = "iam_user"
                 /\ UNCHANGED <<log, iam_ret, exc, e>>
            ELSE /\ e' = o
                 /\ IamHandler(o, <<Log("debug", "Failed to connect to IAM"),
                                 Log("debug", "Account has no access to IAM")>>)
    /\ UNCHANGED <<token, invoked, root_ret, bf_ret, policy_names, fetched,
                   permissions, probed, actions>>

\* ---- check_via_iam, lines 122-125 -------------------------------------
IamCurrentUser ==
    /\ pc = "iam_user"
    /\ calls' = Append(calls, "get_current_user")
    /\ \E user \in Users :
         /\ results' = Append(results, Lookup(user))
         /\ IF user = None
            THEN /\ iam_ret' = Some(IamFailure)
                 /\ pc' = "after_iam"
            ELSE /\ iam_ret' = iam_ret
                 /\ pc' = "iam_list"
    /\ UNCHANGED <<token, invoked, log, root_ret, bf_ret, e, policy_names, fetched,
                   permissions, probed, actions, exc>>

\* ---- check_via_iam, lines 127-136 -------------------------------------
IamListPolicies ==
    /\ pc = "iam_list"
    /\ calls' = Append(calls, "get_all_user_policies")
    /\ \/ \E n \in 0..MaxPolicies :
            /\ results' = Append(results, Ok)
            /\ policy_names' = [i \in 1..n |-> i]
            /\ pc' = "iam_fetch"
            /\ UNCHANGED <<log, iam_ret, exc, e>>
       \/ \E o \in ExcKinds :
            /\ results' = Append(results, o)
            /\ e' = o
            /\ policy_names' = policy_names
            /\ IamHandler(o, <<Log("debug", "Account has no privileges to get all user policies")>>)
    /\ UNCHANGED <<token, invoked, root_ret, bf_ret, fetched,
                   permissions, probed, actions>>

\* ---- check_via_iam, lines 138-149: one iteration of the loop ----------
\* The bare `except:` binds nothing, so the handler reads whatever e holds.
\* The decoding is in the `else:` clause, outside every try.
IamFetch ==
    /\ pc = "iam_fetch"
    /\ fetched < Len(policy_names)
    /\ calls' = Append(calls, "get_user_policy")
    /\ \/ \E wire \in WireDocs :
            LET policy_document == json_loads(unquote(wire)) IN
            /\ results' = Append(results, Ok)
            /\ IF policy_document = None
               THEN /\ Raise("ValueError")
                    /\ UNCHANGED <<log, iam_ret, permissions, fetched>>
               ELSE /\ permissions' = Append(permissions, policy_document[1])
                    /\ fetched' = fetched + 1
                    /\ UNCHANGED <<log, iam_ret, pc, exc>>
       \/ \E o \in ExcKinds :
            /\ results' = Append(results, o)
            /\ IamHandler(e, <<Log("debug", "Account has no privileges to get user policy")>>)
            /\ UNCHANGED <<permissions, fetched>>
    /\ UNCHANGED <<token, invoked, root_ret, bf_ret, e, policy_names,
                   probed, actions>>

\* ---- check_via_iam, line 151 ------------------------------------------
IamReturn ==
    /\ pc = "iam_fetch"
    /\ fetched = Len(policy_names)
    /\ iam_ret' = Some([success |-> TRUE, permissions |-> Some(permissions)])
    /\ pc' = "after_iam"
    /\ UNCHANGED <<token, invoked, calls, results, log, root_ret, bf_ret, e, policy_names,
                   fetched, permissions, probed, actions, exc>>

\* Variant of iam_short_circuit: the run falls through to the bruteforce
\* whatever check_via_iam reported.
iam_short_circuit_never(ret) == FALSE

\* Variant of iam_short_circuit: an empty successful result counts as a
\* failure (`if success and permissions:`).
iam_short_circuit_nonempty(ret) ==
    /\ ret.success = TRUE
    /\ ret.permissions # None
    /\ ret.permissions[1] # <<>>

\* cmd_handler, lines 38-40: TRUE when the run prints and ends after
\* check_via_iam.
iam_short_circuit(ret) == ret.success = TRUE

\* ---- cmd_handler, lines 37-43 -----------------------------------------
HandlerAfterIam ==
    /\ pc = "after_iam"
    /\ IF iam_short_circuit(iam_ret[1])
       THEN /\ log' = log \o print_permissions(iam_ret[1].permissions[1])
            /\ pc' = "done"
            /\ invoked' = invoked
       ELSE /\ log' = log
            /\ pc' = "ec2_connect"
            /\ invoked' = Append(invoked, "bruteforce_permissions")
    /\ UNCHANGED <<token, calls, results, root_ret, iam_ret, bf_ret, e, policy_names,
                   fetched, permissions, probed, actions, exc>>

\* ---- bruteforce_ec2_permissions, lines 82-90 (and 63-79 on return) -----
Ec2Connect ==
    /\ pc = "ec2_connect"
    /\ calls' = Append(calls, "EC2Connection")
    /\ \E o \in Outcomes :
         /\ results' = Append(results, o)
         /\ IF o = Ok
            THEN /\ pc' = "ec2_probe"
                 /\ UNCHANGED <<log, bf_ret, exc>>
            ELSE IF HasErrorMessage(o)
            THEN /\ log' = Append(log, Log("debug", "Failed to connect to EC2"))
                 /\ bf_ret' = Some(bruteforce_permissions(actions))
                 /\ pc' = "after_bruteforce"
                 /\ exc' = exc
            ELSE /\ Raise("AttributeError")
                 /\ UNCHANGED <<log, bf_ret>>
    /\ UNCHANGED <<token, invoked, root_ret, iam_ret, e, policy_names, fetched,
                   permissions, probed, actions>>

\* bruteforce_ec2_permissions, lines 100-102: the actions after a probe
\* that returned.
confirm(acts, api_action) == Append(acts, api_action)

\* ---- bruteforce_ec2_permissions, lines 95-102: one iteration ----------
Ec2Probe ==
    /\ pc = "ec2_probe"
    /\ probed < Len(TESTS)
    /\ LET api_action == TESTS[probed + 1] IN
       /\ calls' = Append(calls, api_action)
       /\ \E o \in Outcomes :
            /\ results' = Append(results, o)
            /\ IF o = Ok
               THEN /\ log' = Append(log, Log("debug", "IS allowed"))
                    /\ actions' = confirm(actions, api_action)
                    /\ probed' = probed + 1
                    /\ UNCHANGED <<pc, exc>>
               ELSE IF HasErrorMessage(o)
               THEN /\ log' = Append(log, Log("debug", "is not allowed"))
                    /\ probed' = probed + 1
                    /\ UNCHANGED <<actions, pc, exc>>
               ELSE /\ Raise("AttributeError")
                    /\ UNCHANGED <<log, actions, probed>>
    /\ UNCHANGED <<token, invoked, root_ret, iam_ret, bf_ret, e, policy_names,
                   fetched, permissions>>

\* ---- bruteforce_ec2_permissions, lines 104-107; bruteforce_permissions,
\* ---- lines 69-79 -------------------------------------------------------
Ec2Return ==
    /\ pc = "ec2_probe"
    /\ probed = Len(TESTS)
    /\ log' = IF actions = <<>> THEN Append(log, Log("warning", NoActionsMsg)) ELSE log
    /\ bf_ret' = Some(bruteforce_permissions(actions))
    /\ pc' = "after_bruteforce"
    /\ UNCHANGED <<token, invoked, calls, results, root_ret, iam_ret, e, policy_names,
                   fetched, permissions, probed, actions, exc>>

\* ---- cmd_handler, line 44 ---------------------------------------------
HandlerAfterBruteforce ==
    /\ pc = "after_bruteforce"
    /\ log' = log \o print_permissions(bf_ret[1])
    /\ pc' = "done"
    /\ UNCHANGED <<token, invoked, calls, results, root_ret, iam_ret, bf_ret, e, policy_names,
                   fetched, permissions, probed, actions, exc>>

Next ==
    \/ RootTokenCheck
    \/ RootConnect
    \/ RootSummary
    \/ RootEnumerate
    \/ HandlerAfterRoot
    \/ IamConnect
    \/ IamCurrentUser
    \/ IamListPolicies
    \/ IamFetch
    \/ IamReturn
    \/ HandlerAfterIam
    \/ Ec2Connect
    \/ Ec2Probe
    \/ Ec2Return
    \/ HandlerAfterBruteforce

Spec == Init /\ [][Next]_vars

TypeOK ==
    /\ token \in Tokens
    /\ pc \in {"cmd_handler", "root_connect", "root_summary", "root_enumerate",
               "after_root", "iam_connect", "iam_user", "iam_list", "iam_fetch",
               "after_iam", "ec2_connect", "ec2_probe", "after_bruteforce",
               "done", "raised"}
    /\ exc \in {"none", "AttributeError", "UnboundLocalError", "ValueError"}
    /\ (pc = "raised") = (exc # "none")
    /\ fetched \in 0..Len(policy_names)
    /\ probed \in 0..Len(TESTS)

\* ======================================================================
\* Properties
\* ======================================================================
Order == <<"check_root_account", "check_via_iam", "bruteforce_permissions">>

IamCalls == {"get_current_user", "get_all_user_policies", "get_user_policy"}
Ec2Calls == {"EC2Connection"} \cup {TESTS[k] : k \in DOMAIN TESTS}

\* The records a user sees: everything above debug level.
Visible(l) == SelectSeq(l, LAMBDA r : r.level # "debug")

IamFailed == iam_ret # None /\ iam_ret[1].success = FALSE
IamSucceededEmpty ==
    iam_ret # None /\ iam_ret[1] = [success |-> TRUE, permissions |-> Some(<<>>)]

\* C1: the strategies run in the order root check, policy introspection,
\* bruteforce; check_via_iam (and every call it makes) happens only after
\* check_root_account returned False, bruteforce_permissions (and every call
\* it makes) only after check_via_iam reported success=False, and then
\* always; no strategy is invoked twice.
C1_StrictOrder ==
    /\ Len(invoked) <= Len(Order)
    /\ invoked = SubSeq(Order, 1, Len(invoked))
    /\ (Len(invoked) >= 2 => root_ret = Some(FALSE))
    /\ (Len(invoked) = 3 => IamFailed)
    /\ ((IamFailed /\ pc # "after_iam") => Len(invoked) = 3)
    /\ \A i \in DOMAIN calls :
         /\ (calls[i] \in IamCalls => root_ret = Some(FALSE) /\ Len(invoked) >= 2)
         /\ (calls[i] \in Ec2Calls => IamFailed /\ Len(invoked) = 3)

C1_Witness ==
    /\ pc = "done"
    /\ invoked = Order
    /\ bf_ret # None

\* C2: once check_root_account has returned True the run ends: neither
\* check_via_iam nor bruteforce_permissions is invoked, print_permissions is
\* not called, and the only visible output is the root-detected line.
C2_RootEndsRun ==
    root_ret = Some(TRUE) =>
        /\ invoked = <<"check_root_account">>
        /\ pc \in {"after_root", "done"}
        /\ exc = "none"
        /\ calls = <<"IAMConnection", "get_account_summary", "get_user_from_key">>
        /\ Visible(log) = <<Log("info", RootMsg)>>

C2_Witness ==
    /\ root_ret = Some(TRUE)
    /\ pc = "done"

\* C3: with a non-empty session token check_root_account returns False
\* without having made any remote call: no connect, account summary or user
\* enumeration precedes its return, and the latter two never happen at all.
C3_TokenSkipsRootCheck ==
    token # "" =>
        /\ pc \notin {"root_connect", "root_summary", "root_enumerate"}
        /\ (root_ret # None => root_ret = Some(FALSE))
        /\ (Len(invoked) <= 1 => calls = <<>>)
        /\ (pc = "after_root" => root_ret = Some(FALSE) /\ calls = <<>>)
        /\ \A i \in DOMAIN calls :
             calls[i] \notin {"get_account_summary", "get_user_from_key"}

C3_Witness ==
    /\ token # ""
    /\ pc = "after_root"
    /\ root_ret = Some(FALSE)

\* C4: whenever the identity-management connect fails, the function that
\* made it returns its negative result (check_root_account False,
\* check_via_iam success=False without documents) instead of raising.
C4_ConnectFailureIsNegative ==
    \A i \in DOMAIN calls :
        (calls[i] = "IAMConnection" /\ results[i] # Ok) =>
            IF i = 1 /\ ~token_present(token)
            THEN root_ret = Some(FALSE)
            ELSE iam_ret = Some(IamFailure)

\* C5: when the fetch of one policy document fails, check_via_iam stops
\* fetching and returns success=False without documents, nothing fetched
\* before is printed, and the run proceeds to the bruteforce.
C5_AllOrNothing ==
    \A i \in DOMAIN calls :
        (calls[i] = "get_user_policy" /\ results[i] \in ExcKinds) =>
            /\ iam_ret = Some(IamFailure)
            /\ \A j \in DOMAIN calls : j > i => calls[j] # "get_user_policy"
            /\ \A j \in DOMAIN log : log[j].msg # "pformat" \/ Len(invoked) = 3
            /\ (pc # "after_iam" => Len(invoked) = 3)

\* C6: no exception leaves cmd_handler, whatever the remote calls and the
\* decoding do.
C6_NoExceptionEscapes ==
    /\ exc = "none"
    /\ pc # "raised"

\* C7: when check_via_iam reports success with an empty list, no
\* per-document line is logged and bruteforce_permissions is not invoked.
C7_EmptySuccessEndsRun ==
    IamSucceededEmpty =>
        /\ invoked = <<"check_root_account", "check_via_iam">>
        /\ pc \in {"after_iam", "done"}
        /\ exc = "none"
        /\ bf_ret = None
        /\ \A i \in DOMAIN calls : calls[i] \notin Ec2Calls
        /\ \A i \in DOMAIN log : log[i].obj = None

C7_Witness ==
    /\ IamSucceededEmpty
    /\ pc = "done"

\* The action names of the entries of TESTS whose result in rs is Ok, in the
\* order of TESTS.
Confirmed(rs) ==
    LET idx == SelectSeq([k \in DOMAIN TESTS |-> k], LAMBDA k : rs[k] = Ok)
    IN  [j \in DOMAIN idx |-> TESTS[idx[j]]]

\* C8: once the compute connection is open every probe of TESTS is made
\* exactly once whatever the others did, and bruteforce_permissions returns
\* one Allow/'*' document listing exactly the probes that succeeded, in
\* probe order, or nothing when none succeeded; it returns nothing when the
\* connection fails.
C8_BruteforceResult ==
    \A i \in DOMAIN calls :
        calls[i] = "EC2Connection" =>
            IF results[i] # Ok
            THEN /\ Len(calls) = i
                 /\ bf_ret = Some(<<>>)
            ELSE pc \in {"after_bruteforce", "done", "raised"} =>
                   /\ SubSeq(calls, i + 1, Len(calls)) = TESTS
                   /\ LET acts == Confirmed(SubSeq(results, i + 1, Len(results)))
                      IN  bf_ret = Some(IF acts = <<>> THEN <<>>
                                        ELSE <<bruteforced_perms(acts)>>)

\* C9: the warning 'No permissions could be dumped.' appears only in runs
\* where check_root_account returned False, check_via_iam reported failure
\* and bruteforce_permissions returned no document.
C9_WarningOnlyWhenAllFail ==
    (\E i \in DOMAIN log : log[i] = Log("warning", NoPermsMsg)) =>
        /\ root_ret = Some(FALSE)
        /\ iam_ret = Some(IamFailure)
        /\ bf_ret = Some(<<>>)

\* C10: without a session token, after connect and account summary have
\* succeeded, the account summary precedes the enumeration and
\* check_root_account returns True exactly when the enumeration returned no
\* owning user, False when it found one and False when it failed.
C10_RootVerdict ==
    (/\ ~token_present(token)
     /\ Len(calls) >= 3
     /\ results[1] = Ok
     /\ results[2] = Ok) =>
        /\ calls[2] = "get_account_summary"
        /\ calls[3] = "get_user_from_key"
        /\ root_ret = Some(results[3] = "no-user")
====
